---- MODULE Spec2Model ----
(***************************************************************************)
(* MeteoMood (src/main.py): a Telegram bot that answers a shared location  *)
(* with the current weather and rule-based clothing advice.                *)
(*                                                                         *)
(* Texts are modelled as strings.  The emoji that open the bot's lines, the *)
(* degree sign and the typographic apostrophe/dash are left out or written *)
(* in ASCII; the wording is otherwise the source's.  Weather readings are  *)
(* integers, instants are seconds since 2000-01-01T00:00:00.               *)
(***************************************************************************)
EXTENDS Integers, Sequences, FiniteSets, TLC

\* Number of inbound location events the adapter dispatches concurrently.
NumEvents == 2
\* Longest hourly series the provider returns in the index-resolution runs.
MaxSeries == 2

VARIABLES
    update,       \* update[e]: the location carried by event e's message, or NoLocation
    provider,     \* provider[e]: what the forecast provider answers to e's GET
    pc,           \* pc[e]: where location_handler stands for event e
    requests,     \* requests[e]: the HTTP GETs issued for e, in order
    locals,       \* locals[e]: get_weather's idx and now for e
    weather_msg,  \* weather_msg[e]: location_handler's local, get_weather's return
    sent,         \* sent[e]: the texts sent with reply_text for e, in order
    utcnow,       \* the wall clock, an instant
    month         \* the month of the local date, datetime.now().month

vars == <<update, provider, pc, requests, locals, weather_msg, sent, utcnow, month>>

Events == 1 .. NumEvents

----------------------------------------------------------------------------
(* Strings and lists.                                                      *)

Abs(x) == IF x < 0 THEN -x ELSE x

\* sep.join(list)
RECURSIVE Join(_, _)
Join(sep, list) ==
    IF list = <<>> THEN ""
    ELSE IF Len(list) = 1 THEN list[1]
    ELSE list[1] \o sep \o Join(sep, Tail(list))

\* list.index(x) of Python, 0-based: the first position holding x.
ListIndex(list, x) ==
    (CHOOSE i \in 1 .. Len(list) :
        /\ list[i] = x
        /\ \A j \in 1 .. (i - 1) : list[j] # x) - 1

\* min(list) of a non-empty list of numbers.
ListMin(list) ==
    CHOOSE v \in {list[i] : i \in 1 .. Len(list)} :
        \A i \in 1 .. Len(list) : v <= list[i]

----------------------------------------------------------------------------
(* dateutil.parser.isoparse on the provider's timestamps,                  *)
(* "YYYY-MM-DDTHH:MM", optionally with ":SS" and with a "Z" zone.          *)

Digits == <<"0", "1", "2", "3", "4", "5", "6", "7", "8", "9">>

IsDigit(c) == \E d \in 1 .. 10 : Digits[d] = c

DigitValue(c) == (CHOOSE d \in 1 .. 10 : Digits[d] = c) - 1

AllDigits(s) == \A i \in 1 .. Len(s) : IsDigit(SubSeq(s, i, i))

RECURSIVE ParseInt(_)
ParseInt(s) ==
    IF Len(s) = 0 THEN 0
    ELSE ParseInt(SubSeq(s, 1, Len(s) - 1)) * 10 + DigitValue(SubSeq(s, Len(s), Len(s)))

IsLeap(y) == (y % 4 = 0 /\ y % 100 # 0) \/ y % 400 = 0

DaysInMonth(y, m) ==
    IF m = 2 THEN (IF IsLeap(y) THEN 29 ELSE 28)
    ELSE IF m \in {4, 6, 9, 11} THEN 30 ELSE 31

\* Days from 2000-01-01 to the civil date y-m-d (proleptic Gregorian).
DaysFromCivil(y, m, d) ==
    LET yy  == IF m <= 2 THEN y - 1 ELSE y
        era == yy \div 400
        yoe == yy - era * 400
        mp  == IF m > 2 THEN m - 3 ELSE m + 9
        doy == (153 * mp + 2) \div 5 + d - 1
        doe == yoe * 365 + yoe \div 4 - yoe \div 100 + doy
    IN  era * 146097 + doe - 730425

\* The zone suffix split off a timestamp: aware iff it ends in "Z".
IsAware(s) == Len(s) > 0 /\ SubSeq(s, Len(s), Len(s)) = "Z"

NaivePart(s) == IF IsAware(s) THEN SubSeq(s, 1, Len(s) - 1) ELSE s

\* Whether isoparse accepts s (it raises ValueError otherwise).
IsIsoString(s) ==
    LET n == NaivePart(s) IN
    /\ Len(n) \in {16, 19}
    /\ AllDigits(SubSeq(n, 1, 4)) /\ SubSeq(n, 5, 5) = "-"
    /\ AllDigits(SubSeq(n, 6, 7)) /\ SubSeq(n, 8, 8) = "-"
    /\ AllDigits(SubSeq(n, 9, 10)) /\ SubSeq(n, 11, 11) = "T"
    /\ AllDigits(SubSeq(n, 12, 13)) /\ SubSeq(n, 14, 14) = ":"
    /\ AllDigits(SubSeq(n, 15, 16))
    /\ Len(n) = 19 => (SubSeq(n, 17, 17) = ":" /\ AllDigits(SubSeq(n, 18, 19)))
    /\ ParseInt(SubSeq(n, 6, 7)) \in 1 .. 12
    /\ ParseInt(SubSeq(n, 9, 10)) \in
           1 .. DaysInMonth(ParseInt(SubSeq(n, 1, 4)), ParseInt(SubSeq(n, 6, 7)))
    /\ ParseInt(SubSeq(n, 12, 13)) \in 0 .. 23
    /\ ParseInt(SubSeq(n, 15, 16)) \in 0 .. 59
    /\ Len(n) = 19 => ParseInt(SubSeq(n, 18, 19)) \in 0 .. 59

\* The instant isoparse(s) denotes, for a string it accepts.
isoparse(s) ==
    LET n    == NaivePart(s)
        days == DaysFromCivil(ParseInt(SubSeq(n, 1, 4)), ParseInt(SubSeq(n, 6, 7)),
                              ParseInt(SubSeq(n, 9, 10)))
        secs == IF Len(n) = 19 THEN ParseInt(SubSeq(n, 18, 19)) ELSE 0
    IN  ((days * 24 + ParseInt(SubSeq(n, 12, 13))) * 60
            + ParseInt(SubSeq(n, 15, 16))) * 60 + secs

----------------------------------------------------------------------------
(* get_season and get_weather.                                             *)

Seasons == {"winter", "spring", "summer", "autumn"}

\* get_season naming the last season "fall", a name no branch of get_weather knows.
get_season_fall(m) ==
    IF m \in {12, 1, 2} THEN "winter"
    ELSE IF m \in {3, 4, 5} THEN "spring"
    ELSE IF m \in {6, 7, 8} THEN "summer"
    ELSE "fall"

get_season(m) ==
    IF m \in {12, 1, 2} THEN "winter"
    ELSE IF m \in {3, 4, 5} THEN "spring"
    ELSE IF m \in {6, 7, 8} THEN "summer"
    ELSE "autumn"

\* The outcome of a block of code: a value returned or an exception raised.
Return(v) == [exc |-> "", value |-> v]

Raise(kind) == [exc |-> kind, value |-> ""]

\* The resolution without its first step: always the stamp nearest to the clock.
ResolveIndexNearestOnly(current_time, times, clock) ==
    IF times = <<>> THEN [exc |-> "ValueError", idx |-> <<>>, now |-> <<clock>>]
    ELSE LET hour_diffs == [i \in 1 .. Len(times) |->
                               Abs(isoparse(times[i]) - clock)]
         IN  [exc |-> "", idx |-> <<ListIndex(hour_diffs, ListMin(hour_diffs))>>,
              now |-> <<clock>>]

\* The resolution with the signed difference in place of its absolute value.
ResolveIndexSigned(current_time, times, clock) ==
    IF \E i \in 1 .. Len(times) : times[i] = current_time
    THEN [exc |-> "", idx |-> <<ListIndex(times, current_time)>>, now |-> <<>>]
    ELSE IF times = <<>>
    THEN [exc |-> "ValueError", idx |-> <<>>, now |-> <<clock>>]
    ELSE LET hour_diffs == [i \in 1 .. Len(times) |-> isoparse(times[i]) - clock]
         IN  [exc |-> "", idx |-> <<ListIndex(hour_diffs, ListMin(hour_diffs))>>,
              now |-> <<clock>>]

\* The hourly index of "now" (lines 51-57), 0-based as in the source, with
\* the clock reading taken on the fallback path (<<>>: the clock was not read).
ResolveIndex(current_time, times, clock) ==
    IF \E i \in 1 .. Len(times) : times[i] = current_time
    THEN [exc |-> "", idx |-> <<ListIndex(times, current_time)>>, now |-> <<>>]
    ELSE LET bad == {i \in 1 .. Len(times) :
                        ~IsIsoString(times[i]) \/ IsAware(times[i])}
         IN  IF bad # {}
             THEN LET first == CHOOSE i \in bad : \A j \in bad : i <= j
                  IN  [exc |-> IF IsIsoString(times[first]) THEN "TypeError"
                               ELSE "ValueError",
                       idx |-> <<>>, now |-> <<clock>>]
             ELSE IF times = <<>>
             THEN [exc |-> "ValueError", idx |-> <<>>, now |-> <<clock>>]
             ELSE LET hour_diffs == [i \in 1 .. Len(times) |->
                                        Abs(isoparse(times[i]) - clock)]
                  IN  [exc |-> "",
                       idx |-> <<ListIndex(hour_diffs, ListMin(hour_diffs))>>,
                       now |-> <<clock>>]

\* The state line with the rain checked before the snow.
StateLineRainFirst(precipitation, snowfall) ==
    IF precipitation > 0 THEN "It is raining now\n"
    ELSE IF snowfall > 0 THEN "It is snowing now\n"
    ELSE "No rain or snow\n"

\* The precipitation-state line (lines 65-70).
StateLine(precipitation, snowfall) ==
    IF snowfall > 0 THEN "It is snowing now\n"
    ELSE IF precipitation > 0 THEN "It is raining now\n"
    ELSE "No rain or snow\n"

\* The advice with the boundary values in the lower bands.
SeasonAdviceInclusive(season, temp) ==
    LET lines == [winter |-> <<"Dress very warmly, it's freezing!",
                               "Wear a warm jacket and maybe a scarf.",
                               "Unusually warm for winter, but still bring a jacket.">>,
                  spring |-> <<"Still chilly in spring - jacket needed.",
                               "Pleasant spring weather, light clothes are fine.",
                               "Warm spring day, t-shirt weather.">>,
                  summer |-> <<"Cool summer day, maybe a hoodie.",
                               "Comfortable summer weather.",
                               "Very hot - stay hydrated and wear light clothes.">>,
                  autumn |-> <<"Cold autumn day, wear a coat.",
                               "Mild autumn weather, sweater recommended.",
                               "Warm autumn day, enjoy light clothes.">>]
        low   == IF season = "winter" THEN 0 ELSE IF season = "summer" THEN 15 ELSE 10
    IN  IF temp <= low THEN <<lines[season][1]>>
        ELSE IF temp <= low + 10 THEN <<lines[season][2]>>
        ELSE <<lines[season][3]>>

\* The season-aware advice (lines 77-104): a list of at most one line.
SeasonAdvice(season, temp) ==
    IF season = "winter" THEN
        IF temp < 0 THEN <<"Dress very warmly, it's freezing!">>
        ELSE IF temp < 10 THEN <<"Wear a warm jacket and maybe a scarf.">>
        ELSE <<"Unusually warm for winter, but still bring a jacket.">>
    ELSE IF season = "spring" THEN
        IF temp < 10 THEN <<"Still chilly in spring - jacket needed.">>
        ELSE IF temp < 20 THEN <<"Pleasant spring weather, light clothes are fine.">>
        ELSE <<"Warm spring day, t-shirt weather.">>
    ELSE IF season = "summer" THEN
        IF temp < 15 THEN <<"Cool summer day, maybe a hoodie.">>
        ELSE IF temp < 25 THEN <<"Comfortable summer weather.">>
        ELSE <<"Very hot - stay hydrated and wear light clothes.">>
    ELSE IF season = "autumn" THEN
        IF temp < 10 THEN <<"Cold autumn day, wear a coat.">>
        ELSE IF temp < 20 THEN <<"Mild autumn weather, sweater recommended.">>
        ELSE <<"Warm autumn day, enjoy light clothes.">>
    ELSE <<>>

\* The boots or umbrella line (lines 106-109).
PrecipitationAdvice(precipitation, snowfall) ==
    IF snowfall > 0 THEN <<"Wear boots for the snow.">>
    ELSE IF precipitation > 0 THEN <<"Better take an umbrella.">>
    ELSE <<>>

\* The cap/hood line for a wind above 20 km/h only.
WindAdviceStrict(wind) ==
    IF wind > 20 THEN <<"Strong wind - wear a cap or hood.">> ELSE <<>>

\* The cap/hood line (lines 111-112).
WindAdvice(wind) ==
    IF wind >= 20 THEN <<"Strong wind - wear a cap or hood.">> ELSE <<>>

\* The advice list in the order the source appends to it.
Advice(temp, wind, precipitation, snowfall, mon) ==
    SeasonAdvice(get_season(mon), temp)
        \o PrecipitationAdvice(precipitation, snowfall)
        \o WindAdvice(wind)

\* The weather message (lines 62-117).
BuildMessage(temp, wind, precipitation, snowfall, mon) ==
    LET header == "Temperature: " \o ToString(temp) \o "C\nWind: "
                      \o ToString(wind) \o " km/h\n"
        msg    == header \o StateLine(precipitation, snowfall)
        advice == Advice(temp, wind, precipitation, snowfall, mon)
    IN  IF advice # <<>> THEN msg \o "\n" \o Join("\n", advice) ELSE msg

\* What client.get, raise_for_status and response.json() make of the
\* provider's answer (lines 36-39).
HttpGet(p) ==
    IF p.status = "connect_error" THEN Raise("ConnectError")
    ELSE IF p.status = "timeout" THEN Raise("TimeoutException")
    ELSE IF p.status = "http_error" THEN Raise("HTTPStatusError")
    ELSE IF p.status = "bad_json" THEN Raise("JSONDecodeError")
    ELSE Return(p.data)

\* The locals of get_weather the claims speak of: idx and now, <<>> while unbound.
NoLocals == [idx |-> <<>>, now |-> <<>>]

\* The body of get_weather's try block (lines 36-117): the value it returns or
\* the exception it raises, and its locals.
TryBody(p, clock, mon) ==
    LET got == HttpGet(p) IN
    IF got.exc # "" THEN [exc |-> got.exc, value |-> "", locals |-> NoLocals]
    ELSE LET data == got.value IN
    IF "current_weather" \notin data.keys
    THEN [exc |-> "KeyError", value |-> "", locals |-> NoLocals]
    ELSE IF "hourly" \notin data.keys
    THEN [exc |-> "KeyError", value |-> "", locals |-> NoLocals]
    ELSE LET temp  == data.current_weather.temperature
             wind  == data.current_weather.windspeed
             times == data.hourly.time
             prec  == data.hourly.precipitation
             snow  == data.hourly.snowfall
             res   == ResolveIndex(data.current_weather.time, times, clock)
             loc   == [idx |-> res.idx, now |-> res.now]
         IN  IF res.exc # "" THEN [exc |-> res.exc, value |-> "", locals |-> loc]
             ELSE LET idx == res.idx[1] IN
                  IF idx + 1 > Len(prec) \/ idx + 1 > Len(snow)
                  THEN [exc |-> "IndexError", value |-> "", locals |-> loc]
                  ELSE [exc |-> "",
                        value |-> BuildMessage(temp, wind, prec[idx + 1],
                                               snow[idx + 1], mon),
                        locals |-> loc]

\* The exceptions the try block raises, all of them subclasses of Exception.
ExceptionKinds ==
    {"ConnectError", "TimeoutException", "HTTPStatusError", "JSONDecodeError",
     "KeyError", "ValueError", "TypeError", "IndexError"}

\* A narrower clause, `except httpx.HTTPError`.
CaughtHttpOnly(kind) ==
    kind \in {"ConnectError", "TimeoutException", "HTTPStatusError"}

\* `except Exception` (line 119).
Caught(kind) == kind \in ExceptionKinds

\* get_weather (lines 26-120): its return value, or the exception it lets
\* through.  The detail of the error text is the exception's kind.
get_weather(p, clock, mon) ==
    LET body == TryBody(p, clock, mon) IN
    IF body.exc # "" /\ Caught(body.exc)
    THEN [body EXCEPT !.exc = "", !.value = "Error fetching weather: " \o body.exc]
    ELSE body

----------------------------------------------------------------------------
(* The handler of a location message, one step per stretch between awaits. *)

NoLocationText == "No location received. Please try again."

\* The handler without its else branch: no reply when no location came.
LocationHandlerSilent(e) ==
    /\ pc[e] = "dispatched"
    /\ IF update[e].has_location
       THEN /\ requests' = [requests EXCEPT ![e] = Append(@,
                               [latitude |-> update[e].latitude,
                                longitude |-> update[e].longitude])]
            /\ pc' = [pc EXCEPT ![e] = "awaiting_get"]
       ELSE /\ pc' = [pc EXCEPT ![e] = "done"]
            /\ UNCHANGED requests
    /\ UNCHANGED <<update, provider, locals, weather_msg, sent, utcnow, month>>

\* Lines 134-139 up to the GET of line 37: without a location the fixed
\* reply is sent; with one, get_weather issues its request.
LocationHandler(e) ==
    /\ pc[e] = "dispatched"
    /\ IF update[e].has_location
       THEN /\ requests' = [requests EXCEPT ![e] = Append(@,
                               [latitude |-> update[e].latitude,
                                longitude |-> update[e].longitude])]
            /\ pc' = [pc EXCEPT ![e] = "awaiting_get"]
            /\ UNCHANGED sent
       ELSE /\ sent' = [sent EXCEPT ![e] = Append(@, NoLocationText)]
            /\ pc' = [pc EXCEPT ![e] = "done"]
            /\ UNCHANGED requests
    /\ UNCHANGED <<update, provider, locals, weather_msg, utcnow, month>>

\* get_weather keeping the first answer it got in a module-level cache.
HttpCompleteCached(e) ==
    /\ pc[e] = "awaiting_get"
    /\ LET first == IF \E f \in Events : pc[f] \in {"got_weather", "done"}
                                          /\ update[f].has_location
                    THEN CHOOSE f \in Events : pc[f] \in {"got_weather", "done"}
                                                /\ update[f].has_location
                    ELSE e
           r == get_weather(provider[first], utcnow, month)
       IN  /\ locals' = [locals EXCEPT ![e] = r.locals]
           /\ weather_msg' = [weather_msg EXCEPT ![e] = r.value]
           /\ pc' = [pc EXCEPT ![e] = "got_weather"]
    /\ UNCHANGED <<update, provider, requests, sent, utcnow, month>>

\* Lines 37-120 and 136: the GET ends, the rest of get_weather runs and its
\* result is bound to weather_msg; an exception it lets through ends the handler.
HttpComplete(e) ==
    /\ pc[e] = "awaiting_get"
    /\ LET r == get_weather(provider[e], utcnow, month) IN
       /\ locals' = [locals EXCEPT ![e] = r.locals]
       /\ IF r.exc = ""
          THEN /\ weather_msg' = [weather_msg EXCEPT ![e] = r.value]
               /\ pc' = [pc EXCEPT ![e] = "got_weather"]
          ELSE /\ pc' = [pc EXCEPT ![e] = "faulted"]
               /\ UNCHANGED weather_msg
    /\ UNCHANGED <<update, provider, requests, sent, utcnow, month>>

\* Line 137: reply_text(weather_msg).
ReplyText(e) ==
    /\ pc[e] = "got_weather"
    /\ sent' = [sent EXCEPT ![e] = Append(@, weather_msg[e])]
    /\ pc' = [pc EXCEPT ![e] = "done"]
    /\ UNCHANGED <<update, provider, requests, locals, weather_msg, utcnow, month>>

\* The wall clock read by datetime.utcnow() (line 55) moves on.
ClockInstants ==
    {isoparse("2024-01-01T10:05"), isoparse("2024-01-01T10:30"),
     isoparse("2024-01-01T11:03")}

Tick ==
    /\ \E t \in ClockInstants : t > utcnow /\ utcnow' = t
    /\ UNCHANGED <<update, provider, pc, requests, locals, weather_msg, sent, month>>

Next ==
    \/ \E e \in Events : LocationHandler(e)
    \/ \E e \in Events : HttpComplete(e)
    \/ \E e \in Events : ReplyText(e)
    \/ Tick

----------------------------------------------------------------------------
(* The inputs: the updates the adapter dispatches and the provider's answers. *)

Location(lat, lon) == [has_location |-> TRUE, latitude |-> lat, longitude |-> lon]

\* update.message.location is None.
NoLocation == [has_location |-> FALSE, latitude |-> 0, longitude |-> 0]

\* A 2xx answer whose JSON body holds the given blocks (line 39); keys are the
\* top-level fields present in it.
Forecast(keys, temp, wind, time, times, temps, prec, snow) ==
    [status |-> "ok",
     data   |-> [keys |-> keys,
                 current_weather |-> [temperature |-> temp, windspeed |-> wind,
                                      time |-> time],
                 hourly |-> [time |-> times, temperature_2m |-> temps,
                             precipitation |-> prec, snowfall |-> snow]]]

AllKeys == {"current_weather", "hourly"}

\* An answer that is no JSON forecast: a network error, a timeout, a non-2xx
\* status, a body that is not JSON.
Failure(status) ==
    [Forecast({}, 0, 0, "", <<>>, <<>>, <<>>, <<>>) EXCEPT !.status = status]

FailureStatuses == {"connect_error", "timeout", "http_error", "bad_json"}

\* All lists of length n over S.
ListsOf(S, n) == [1 .. n -> S]

TenOClock == "2024-01-01T10:00"

ElevenOClock == "2024-01-01T11:00"

HourlyStamps == {TenOClock, ElevenOClock, "2024-01-01T12:00"}

CurrentStamps == {ElevenOClock, "2024-01-01T11:03", "2024-01-01T11:00:00",
                  "2024-01-01T09:58"}

\* The answers of the index-resolution runs: every hourly series of up to
\* MaxSeries stamps, with every pattern of dry and wet hours.
IndexAnswers ==
    UNION {{Forecast(AllKeys, 3, 7, time, times, [i \in 1 .. n |-> 50 + i], prec, snow) :
               time \in CurrentStamps, times \in ListsOf(HourlyStamps, n),
               prec \in ListsOf({0, 1}, n), snow \in ListsOf({0, 1}, n)} :
           n \in 0 .. MaxSeries}

Temperatures == {-5, -1, 0, 9, 10, 14, 15, 19, 20, 22, 24, 25}

Winds == {5, 19, 20, 25}

\* The answers of the advice runs: one series, every reading at its last hour.
AdviceAnswers ==
    {Forecast(AllKeys, temp, wind, ElevenOClock, <<TenOClock, ElevenOClock>>,
              <<50, 51>>, <<0, p>>, <<0, s>>) :
        temp \in Temperatures, wind \in Winds, p \in {0, 2}, s \in {0, 2}}

SnowyAnswer ==
    Forecast(AllKeys, -5, 25, ElevenOClock, <<TenOClock, ElevenOClock>>,
             <<-4, -5>>, <<0, 0>>, <<0, 2>>)

RainyAnswer ==
    Forecast(AllKeys, 12, 5, "2024-01-01T11:03", <<TenOClock, ElevenOClock>>,
             <<11, 12>>, <<0, 3>>, <<0, 0>>)

\* The answers that make the try block raise, and two that do not.
FailureAnswers ==
    {Failure(st) : st \in FailureStatuses}
    \cup {Forecast(keys, 3, 7, ElevenOClock, <<ElevenOClock>>, <<3>>, <<0>>, <<0>>) :
             keys \in {{}, {"current_weather"}, {"hourly"}}}
    \cup {Forecast(AllKeys, 3, 7, "2024-01-01T11:03", times, <<3>>, <<0>>, <<0>>) :
             times \in {<<>>, <<"11 o'clock">>, <<"2024-01-01T11:00Z">>,
                        <<"2024-02-30T11:00">>}}
    \cup {Forecast(AllKeys, 3, 7, ElevenOClock, <<TenOClock, ElevenOClock>>,
                   <<3, 3>>, prec, snow) :
             prec \in {<<0>>, <<0, 0>>}, snow \in {<<0>>, <<0, 0>>}}
    \cup {SnowyAnswer, RainyAnswer}

MainAnswers ==
    {Failure("timeout"), Failure("http_error"), Failure("bad_json"),
     Forecast({"hourly"}, 3, 7, ElevenOClock, <<ElevenOClock>>, <<3>>, <<0>>, <<0>>),
     SnowyAnswer, RainyAnswer}

\* The answers of the runs under fairness: a timeout, a body without its
\* current_weather block, a forecast.
FairAnswers ==
    {Failure("timeout"),
     Forecast({"hourly"}, 3, 7, ElevenOClock, <<ElevenOClock>>, <<3>>, <<0>>, <<0>>),
     SnowyAnswer}

Vilnius == Location(55, 25)

\* The handlers have not run yet.
Dispatched ==
    /\ pc = [e \in Events |-> "dispatched"]
    /\ requests = [e \in Events |-> <<>>]
    /\ locals = [e \in Events |-> NoLocals]
    /\ weather_msg = [e \in Events |-> ""]
    /\ sent = [e \in Events |-> <<>>]

\* Every event carries a location or none; the provider answers each request.
Init ==
    /\ update \in [Events -> {NoLocation, Vilnius}]
    /\ provider \in [Events -> MainAnswers]
    /\ \A e \in Events : ~update[e].has_location => provider[e] = Failure("timeout")
    /\ utcnow \in ClockInstants
    /\ month \in {1, 7}
    /\ Dispatched

\* One event carries a location, the others none.
OneLocation(answers) ==
    /\ update = [e \in Events |-> IF e = 1 THEN Vilnius ELSE NoLocation]
    /\ \E a \in answers :
          provider = [e \in Events |-> IF e = 1 THEN a ELSE Failure("timeout")]
    /\ Dispatched

InitIndex ==
    /\ OneLocation(IndexAnswers)
    /\ utcnow \in ClockInstants
    /\ month = 1

InitAdvice ==
    /\ OneLocation(AdviceAnswers)
    /\ utcnow = isoparse("2024-01-01T10:05")
    /\ month \in 1 .. 12

InitFailure ==
    /\ OneLocation(FailureAnswers)
    /\ utcnow \in ClockInstants
    /\ month \in {1, 7}

InitFair ==
    /\ update \in [Events -> {NoLocation, Vilnius}]
    /\ provider \in [Events -> FairAnswers]
    /\ \A e \in Events : ~update[e].has_location => provider[e] = Failure("timeout")
    /\ utcnow \in ClockInstants
    /\ month = 1
    /\ Dispatched

Spec == Init /\ [][Next]_vars

\* The event loop runs every handler that can go on: the handler is started,
\* the GET ends (within its timeout of 10 seconds at the latest), the reply
\* is sent.
FairSpec ==
    /\ InitFair /\ [][Next]_vars
    /\ \A e \in Events :
          /\ WF_vars(LocationHandler(e))
          /\ WF_vars(HttpComplete(e))
          /\ WF_vars(ReplyText(e))

SpecIndex == InitIndex /\ [][Next]_vars

SpecAdvice == InitAdvice /\ [][Next]_vars

SpecFailure == InitFailure /\ [][Next]_vars

----------------------------------------------------------------------------
(* The claims.                                                             *)

\* str.startswith
StartsWith(s, prefix) ==
    /\ Len(s) >= Len(prefix)
    /\ SubSeq(s, 1, Len(prefix)) = prefix

\* The text from position start on, split at every "\n" (str.split("\n")).
RECURSIVE SplitFrom(_, _)
SplitFrom(s, start) ==
    LET breaks == {i \in start .. Len(s) : SubSeq(s, i, i) = "\n"} IN
    IF breaks = {} THEN <<SubSeq(s, start, Len(s))>>
    ELSE LET next == CHOOSE i \in breaks : \A j \in breaks : i <= j
         IN  <<SubSeq(s, start, next - 1)>> \o SplitFrom(s, next + 1)

\* The lines of a message.
Lines(s) == SplitFrom(s, 1)

ErrorPrefix == "Error fetching weather: "

\* get_weather has returned for event e, which carried a location.
Returned(e) == update[e].has_location /\ pc[e] \in {"got_weather", "done"}

\* Event e has been answered with a weather report.
Reported(e) ==
    /\ update[e].has_location
    /\ pc[e] = "done"
    /\ ~StartsWith(sent[e][1], ErrorPrefix)

\* The failures of the fetch: a network error, a timeout, a non-2xx status, a
\* body that is not JSON, a JSON body that lacks an expected field.
FetchFails(p) == p.status # "ok" \/ p.data.keys # AllKeys

\* C1: get_weather never raises past its boundary: the handler is never ended
\* by an exception of get_weather, and whenever the fetch fails the string
\* get_weather returns starts with "Error fetching weather: ".
C1_NeverRaises ==
    \A e \in Events :
        /\ pc[e] # "faulted"
        /\ (Returned(e) /\ FetchFails(provider[e]))
              => StartsWith(weather_msg[e], ErrorPrefix)

C1_Witness ==
    \E e \in Events :
        /\ pc[e] = "done"
        /\ provider[e] = Forecast({"current_weather"}, 3, 7, ElevenOClock,
                                  <<ElevenOClock>>, <<3>>, <<0>>, <<0>>)
        /\ sent[e] = <<"Error fetching weather: KeyError">>

\* The hourly stamps and the current-weather stamp of e's answer.
TimesOf(e) == provider[e].data.hourly.time

CurrentOf(e) == provider[e].data.current_weather.time

ExactMatch(e) == \E i \in 1 .. Len(TimesOf(e)) : TimesOf(e)[i] = CurrentOf(e)

\* C2: whenever the current-weather stamp occurs verbatim in the hourly
\* series, the resolved index is a position of it, whatever the clock says;
\* the series [10:00, 11:00] with current time 11:00 resolves to index 1.
C2_ExactMatchIndex ==
    \A e \in Events :
        (Returned(e) /\ ExactMatch(e)) =>
            /\ Len(locals[e].idx) = 1
            /\ locals[e].idx[1] \in 0 .. (Len(TimesOf(e)) - 1)
            /\ TimesOf(e)[locals[e].idx[1] + 1] = CurrentOf(e)
            /\ (TimesOf(e) = <<TenOClock, ElevenOClock>> /\ CurrentOf(e) = ElevenOClock)
                  => locals[e].idx = <<1>>

\* The match is taken although 10:00 is the stamp nearest to the clock.
C2_Witness ==
    \E e \in Events :
        /\ Returned(e)
        /\ TimesOf(e) = <<TenOClock, ElevenOClock>>
        /\ CurrentOf(e) = ElevenOClock
        /\ utcnow = isoparse("2024-01-01T10:05")
        /\ locals[e].idx = <<1>>

\* C3: the series [10:00, 11:00] with the current-weather time 11:03, which
\* is not in the series, resolves to index 1.
C3_FallbackScenario ==
    \A e \in Events :
        (/\ Returned(e)
         /\ TimesOf(e) = <<TenOClock, ElevenOClock>>
         /\ CurrentOf(e) = "2024-01-01T11:03")
            => locals[e].idx = <<1>>

\* The distance of hourly stamp i (1-based) from the clock reading of e.
DeltaOf(e, i) == Abs(isoparse(TimesOf(e)[i]) - locals[e].now[1])

ReportLines(e) == Lines(sent[e][1])

TempOf(e) == provider[e].data.current_weather.temperature

WindOf(e) == provider[e].data.current_weather.windspeed

PrecipitationOf(e) == provider[e].data.hourly.precipitation[locals[e].idx[1] + 1]

SnowfallOf(e) == provider[e].data.hourly.snowfall[locals[e].idx[1] + 1]

\* The season of each month and the bands of each season, as the table of the
\* specification gives them: a season's two thresholds and its three lines.
TableSeason(m) ==
    CASE m \in {12, 1, 2}   -> "winter"
      [] m \in {3, 4, 5}    -> "spring"
      [] m \in {6, 7, 8}    -> "summer"
      [] m \in {9, 10, 11}  -> "autumn"

TableBands ==
    [winter |-> <<0, 10>>, spring |-> <<10, 20>>,
     summer |-> <<15, 25>>, autumn |-> <<10, 20>>]

TableLines ==
    [winter |-> <<"Dress very warmly, it's freezing!",
                  "Wear a warm jacket and maybe a scarf.",
                  "Unusually warm for winter, but still bring a jacket.">>,
     spring |-> <<"Still chilly in spring - jacket needed.",
                  "Pleasant spring weather, light clothes are fine.",
                  "Warm spring day, t-shirt weather.">>,
     summer |-> <<"Cool summer day, maybe a hoodie.",
                  "Comfortable summer weather.",
                  "Very hot - stay hydrated and wear light clothes.">>,
     autumn |-> <<"Cold autumn day, wear a coat.",
                  "Mild autumn weather, sweater recommended.",
                  "Warm autumn day, enjoy light clothes.">>]

\* A boundary value belongs to the upper band.
TableBand(season, t) ==
    IF t < TableBands[season][1] THEN 1
    ELSE IF t < TableBands[season][2] THEN 2
    ELSE 3

SeasonalLines == UNION {{TableLines[x][b] : b \in 1 .. 3} : x \in Seasons}

BootsLine == "Wear boots for the snow."

UmbrellaLine == "Better take an umbrella."

CapLine == "Strong wind - wear a cap or hood."

StateLines == {"It is snowing now", "It is raining now", "No rain or snow"}

\* C5: for every month 1..12 and every temperature exactly one seasonal
\* advice line is in the report: the line of the month's season and of the
\* band the temperature falls in, boundary values in the upper band.
C5_OneSeasonalLine ==
    \A e \in Events :
        Reported(e) =>
            LET ls     == ReportLines(e)
                chosen == {i \in 1 .. Len(ls) : ls[i] \in SeasonalLines}
            IN  /\ Cardinality(chosen) = 1
                /\ \A i \in chosen :
                      ls[i] = TableLines[TableSeason(month)]
                                  [TableBand(TableSeason(month), TempOf(e))]

\* A boundary: 10 degrees in December is in winter's upper band.
C5_Witness ==
    \E e \in Events :
        /\ Reported(e)
        /\ month = 12
        /\ TempOf(e) = 10
        /\ ReportLines(e)[5] = "Unusually warm for winter, but still bring a jacket."

\* C6: every report holds exactly one precipitation-state line, snowfall
\* checked first, from the snowfall and precipitation at the resolved hourly
\* index; its temperature and wind lines show the current-weather block.
C6_StateLine ==
    \A e \in Events :
        Reported(e) =>
            LET ls == ReportLines(e) IN
            /\ Cardinality({i \in 1 .. Len(ls) : ls[i] \in StateLines}) = 1
            /\ ls[3] = IF SnowfallOf(e) > 0 THEN "It is snowing now"
                       ELSE IF PrecipitationOf(e) > 0 THEN "It is raining now"
                       ELSE "No rain or snow"
            /\ ls[1] = "Temperature: " \o ToString(TempOf(e)) \o "C"
            /\ ls[2] = "Wind: " \o ToString(WindOf(e)) \o " km/h"

\* Snow and rain at the resolved hour, a dry hour before it: the line is the snow's.
C6_Witness ==
    \E e \in Events :
        /\ Reported(e)
        /\ locals[e].idx = <<1>>
        /\ provider[e].data.hourly.snowfall = <<0, 1>>
        /\ provider[e].data.hourly.precipitation = <<0, 1>>
        /\ ReportLines(e)[3] = "It is snowing now"

\* C7: after the seasonal line come the boots line if snowfall > 0, else the
\* umbrella line if precipitation > 0, then the cap/hood line iff wind >= 20,
\* whatever the season; the two scenarios give the reports stated.
C7_ExtraAdvice ==
    \A e \in Events :
        Reported(e) =>
            LET ls == ReportLines(e) IN
            /\ SubSeq(ls, 6, Len(ls)) =
                  (IF SnowfallOf(e) > 0 THEN <<BootsLine>>
                   ELSE IF PrecipitationOf(e) > 0 THEN <<UmbrellaLine>>
                   ELSE <<>>)
                  \o (IF WindOf(e) >= 20 THEN <<CapLine>> ELSE <<>>)
            /\ (/\ TempOf(e) = -5 /\ WindOf(e) = 25 /\ PrecipitationOf(e) = 0
                /\ SnowfallOf(e) = 2 /\ month = 1)
                  => ls = <<"Temperature: -5C", "Wind: 25 km/h", "It is snowing now",
                            "", "Dress very warmly, it's freezing!", BootsLine, CapLine>>
            /\ (/\ TempOf(e) = 22 /\ WindOf(e) = 5 /\ PrecipitationOf(e) = 0
                /\ SnowfallOf(e) = 0 /\ month = 7)
                  => ls = <<"Temperature: 22C", "Wind: 5 km/h", "No rain or snow",
                            "", "Comfortable summer weather.">>

\* Wind of exactly 20 km/h with snow and rain: boots, no umbrella, the cap.
C7_Witness ==
    \E e \in Events :
        /\ Reported(e)
        /\ WindOf(e) = 20
        /\ SnowfallOf(e) = 2
        /\ PrecipitationOf(e) = 2
        /\ SubSeq(ReportLines(e), 6, 7) = <<BootsLine, CapLine>>
        /\ Len(ReportLines(e)) = 7

\* What is asked of a handler that has ended, with or without a location.
AnsweredOnce(e) ==
    /\ Len(sent[e]) = 1
    /\ IF update[e].has_location
       THEN /\ requests[e] = <<[latitude |-> update[e].latitude,
                                longitude |-> update[e].longitude]>>
            /\ sent[e][1] = weather_msg[e]
            /\ StartsWith(sent[e][1], "Temperature: ")
                  \/ StartsWith(sent[e][1], ErrorPrefix)
       ELSE /\ sent[e] = <<NoLocationText>>
            /\ requests[e] = <<>>

\* C8: every location event is answered with exactly one reply: never more
\* than one text is sent for it, its handler never ends on an exception,
\* the handler does end, and once it has ended one text has been sent: the
\* return value of get_weather for the coordinates of its location, or,
\* without a location, the fixed text with no fetch made.
C8_OneReply ==
    /\ [](\A e \in Events :
            /\ pc[e] \in {"dispatched", "awaiting_get", "got_weather", "done"}
            /\ Len(sent[e]) <= 1
            /\ Len(sent[e]) = 1 => pc[e] = "done"
            /\ ~update[e].has_location => requests[e] = <<>>
            /\ pc[e] = "done" => AnsweredOnce(e))
    /\ \A e \in Events : <>(pc[e] = "done")

C8_Witness ==
    \E e, f \in Events :
        /\ pc[e] = "done" /\ pc[f] = "done"
        /\ update[e].has_location /\ ~update[f].has_location
        /\ StartsWith(sent[e][1], "Temperature: ")
        /\ sent[f] = <<NoLocationText>>

\* What the program holds for event e.
EventState(e) == <<pc[e], requests[e], locals[e], weather_msg[e], sent[e]>>

\* A step is a step of one handler: it changes what is held for one event at
\* most, and neither the updates nor the provider's answers.
OneHandlerSteps ==
    /\ update' = update
    /\ provider' = provider
    /\ \A e, f \in Events :
          (e # f /\ EventState(e)' # EventState(e)) => EventState(f)' = EventState(f)

\* C9: under every interleaving each event issues at most one GET, for its
\* own coordinates; a step of one handler leaves the other events as they
\* are; and what get_weather returns for an event is decided by the
\* provider's answer to its own request (and by the clock it read), whatever
\* became of the other requests.
C9_Independent ==
    /\ [][OneHandlerSteps]_vars
    /\ [](\A e \in Events :
            /\ Len(requests[e]) <= 1
            /\ \A i \in 1 .. Len(requests[e]) :
                  /\ requests[e][i].latitude = update[e].latitude
                  /\ requests[e][i].longitude = update[e].longitude
            /\ Returned(e) =>
                  \E t \in ClockInstants :
                      /\ locals[e].now \in {<<>>, <<t>>}
                      /\ weather_msg[e] = get_weather(provider[e], t, month).value
            /\ (pc[e] = "done" /\ update[e].has_location)
                  => sent[e] = <<weather_msg[e]>>)

\* One request has timed out and was answered with the error text, another
\* was answered with its report.
C9_Witness ==
    \E e, f \in Events :
        /\ provider[e] = Failure("timeout")
        /\ sent[e] = <<"Error fetching weather: TimeoutException">>
        /\ provider[f] = SnowyAnswer
        /\ pc[f] = "done"
        /\ StartsWith(sent[f][1], "Temperature: -5C")

\* C10: the advice block of a report is never empty: the report has its three
\* head lines, a blank line, the seasonal line and at most two more lines;
\* get_season gives one of the four seasons for every integer month.
C10_AdviceNeverEmpty ==
    /\ \A m \in -12 .. 24 : get_season(m) \in Seasons
    /\ \A e \in Events :
          Reported(e) =>
              LET ls == ReportLines(e) IN
              /\ Len(ls) \in 5 .. 7
              /\ ls[4] = ""
              /\ ls[5] \in SeasonalLines
              /\ \A i \in 5 .. Len(ls) : ls[i] # ""

\* A dry, calm day of November: the seasonal line is the whole advice block.
C10_Witness ==
    \E e \in Events :
        /\ Reported(e)
        /\ month = 11
        /\ ReportLines(e) = <<"Temperature: 9C", "Wind: 5 km/h", "No rain or snow",
                              "", "Cold autumn day, wear a coat.">>

====
